---- MODULE Spec2Model ----
(***************************************************************************)
(* Bug tracker: the REST handlers of server/src/controllers/bugController  *)
(* over the Bug collection, and, in the client, the statistics derived     *)
(* from a fetched list (components/BugStats.jsx), the list shown under a    *)
(* search term and filters (index.jsx) and the bug form                     *)
(* (components/BugForm.jsx).                                                *)
(*                                                                         *)
(* Text values (title, description, assignee, ...) are sequences of        *)
(* one-character strings, so that their length is what the code measures.  *)
(* Enumerated values (status, priority) are strings.  A request body and a *)
(* stored document are functions from field names to values: a field a     *)
(* body does not carry is outside its DOMAIN.                              *)
(***************************************************************************)
EXTENDS Integers, Sequences, FiniteSets, TLC

VARIABLES
    store,    \* the Bug collection: documents in insertion order
    nextId,   \* the next identifier the driver generates
    issued,   \* ids returned by successful creates so far
    now,      \* Date.now() in milliseconds
    res,      \* what the last handler wrote to its response
    inflight,   \* per caller: the request it has issued and how far it got
    boundary,   \* ErrorBoundary.jsx: this.state, props.fallback, the error being
                \* handled and what console.error has logged
    bugs,       \* index.jsx: useBugs().bugs, the collection last fetched
    searchTerm, \* index.jsx: useState('')
    filters,    \* index.jsx: useState({})
    form,       \* BugForm.jsx: useForm's values and errors
    tagInput    \* BugForm.jsx: useState('')

server == <<store, nextId, issued, now, res>>

client == <<boundary, bugs, searchTerm, filters, form, tagInput>>

vars ==
    <<store, nextId, issued, now, res, inflight, boundary, bugs, searchTerm, filters, form,
      tagInput>>

----------------------------------------------------------------------------
(* Bounds of the model *)

MaxBugs == 2
MaxClock == 1
StatsMaxBugs == 8

(* Field rules: client/src/components/BugForm.jsx, bugFormSchema *)

TitleMin == 1
TitleMax == 100
DescMin == 10
DescMax == 1000
NameMin == 1

Priorities == {"low", "medium", "high", "critical"}
Statuses == {"open", "in-progress", "resolved", "closed"}

----------------------------------------------------------------------------
(* Text helpers *)

Str(c, n) == [i \in 1..n |-> c]

Has(d, f) == f \in DOMAIN d

(* The characters String.prototype.trim strips *)
Whitespace == {" ", "\t", "\n"}

(* The fields of d other than those in fs *)
Without(d, fs) == [f \in (DOMAIN d) \ fs |-> d[f]]

(* p's fields laid over d's *)
Merge(p, d) == p @@ d

----------------------------------------------------------------------------
(* The rule of one field, as bugFormSchema states it *)

FieldValid(f, v) ==
    CASE f = "title" -> Len(v) >= TitleMin /\ Len(v) <= TitleMax
      [] f = "description" -> Len(v) >= DescMin /\ Len(v) <= DescMax
      [] f = "priority" -> v \in Priorities
      [] f = "status" -> v \in Statuses
      [] f \in {"assignee", "reporter", "environment"} -> Len(v) >= NameMin
      [] OTHER -> TRUE

FormFields == {"title", "description", "priority", "assignee", "reporter", "environment"}

(* zod's parse of the form data: every listed field present and within its rule *)
bugFormSchema(data) ==
    /\ FormFields \subseteq DOMAIN data
    /\ \A f \in FormFields : FieldValid(f, data[f])

----------------------------------------------------------------------------
(* The Bug schema (server/src/models/Bug.js), as the specification's data  *)
(* model describes it.                                                     *)

(* Paths a request body can set on a new document *)
SchemaPaths ==
    {"title", "description", "priority", "status", "assignee", "reporter", "environment",
     "reproducible", "stepsToReproduce", "tags"}

(* Paths no update changes *)
ImmutablePaths == {"id", "createdAt"}

(* Only the title is required: the integration test creates a bug from    *)
(* {title: 'Test Bug'} alone and expects 201.                              *)
RequiredPaths == {"title"}

DefaultStatus == "open"

(* Document validation, run by save(): required paths present, and every  *)
(* path the document carries within its rule.                              *)
SchemaValidates(doc) ==
    /\ RequiredPaths \subseteq DOMAIN doc
    /\ \A f \in (DOMAIN doc) \cap SchemaPaths : FieldValid(f, doc[f])

(* The timestamps of a new document and of an updated one *)
StampNew(doc, t) == Merge([createdAt |-> t, updatedAt |-> t], doc)

StampUpdate(doc, t) == Merge([updatedAt |-> t], doc)

(* The part of an update's body that is applied: immutable paths are      *)
(* dropped.                                                                *)
CastUpdateAll(body) == body

CastUpdate(body) == Without(body, ImmutablePaths)

----------------------------------------------------------------------------
(* The model's calls, as bugController.js makes them *)

(* new Bug(req.body): the body's schema paths, the defaults of those it   *)
(* lacks, and a generated id.                                              *)
NewBug(body, id) ==
    LET set == [f \in (DOMAIN body) \cap SchemaPaths |-> body[f]]
    IN  Merge(set, [id |-> id, status |-> DefaultStatus])

(* Bug.find(): every document, in insertion order *)
Find(s) == s

(* The documents of s with identifier id (none or one) *)
FindById(s, id) == SelectSeq(s, LAMBDA d : d.id = id)

(* Bug.findByIdAndUpdate(id, body, {new: true}): the update is applied    *)
(* with $set and without the schema's validators (no runValidators).      *)
ApplyUpdateReplace(doc, body, t) ==
    StampUpdate(Merge(CastUpdate(body), [id |-> doc.id, createdAt |-> doc.createdAt]), t)

ApplyUpdateUnlessClosed(doc, body, t) ==
    IF doc.status = "closed"
    THEN StampUpdate(Merge(Without(CastUpdate(body), {"status"}), doc), t)
    ELSE StampUpdate(Merge(CastUpdate(body), doc), t)

ApplyUpdateKeep(doc, body, t) == StampUpdate(Merge(doc, CastUpdate(body)), t)

ApplyUpdate(doc, body, t) == StampUpdate(Merge(CastUpdate(body), doc), t)

findByIdAndUpdate(s, id, body, t) ==
    [i \in 1..Len(s) |-> IF s[i].id = id THEN ApplyUpdate(s[i], body, t) ELSE s[i]]

(* Bug.findByIdAndDelete(id) *)
deleteMany(s, id) == <<>>

findByIdAndDelete(s, id) == SelectSeq(s, LAMBDA d : d.id /= id)

(* Responses: res.status(201).json(..), and res.json(..) with the default *)
(* status.                                                                 *)
Created == 201
Ok == 200

(* One exchange: the handler op, req.params.id, whether the model call    *)
(* found a document, and the status, the kind of body and the documents of *)
(* the answer.                                                             *)
Response(op, id, found, code, kind, docs, err) ==
    [op |-> op, id |-> id, found |-> found, code |-> code, kind |-> kind, docs |-> docs,
     err |-> err]

NoBody == [f \in {} |-> 0]

(* The API layer's translation of an error a handler's promise rejects    *)
(* with (the handlers catch nothing themselves).                           *)
ErrorStatus(err) == IF err = "ValidationError" THEN 400 ELSE 500

Rejected(op, id, err) == Response(op, id, FALSE, ErrorStatus(err), "error", <<>>, err)

(* res.status(201).json(bug) *)
CreatedResponseOk(bug) == Response("createBug", 0, TRUE, Ok, "doc", <<bug>>, "none")

CreatedResponse(bug) == Response("createBug", 0, TRUE, Created, "doc", <<bug>>, "none")

----------------------------------------------------------------------------
(* Handlers *)

(* bug.save() resolving, and the answer: res.status(201).json(bug) *)
Saved(bug) ==
    /\ store' = Append(store, bug)
    /\ nextId' = nextId + 1
    /\ issued' = issued \cup {bug.id}
    /\ res' = CreatedResponse(bug)
    /\ UNCHANGED now

(* createBug: new Bug(req.body); await bug.save(); res.status(201).json(bug) *)
createBug(body) ==
    IF SchemaValidates(NewBug(body, nextId))
    THEN /\ nextId <= MaxBugs
         /\ Saved(StampNew(NewBug(body, nextId), now))
    ELSE /\ res' = Rejected("createBug", 0, "ValidationError")
         /\ UNCHANGED <<store, nextId, issued, now>>

(* updateBug: findByIdAndUpdate(req.params.id, req.body, {new: true}); res.json(bug) *)
(* res.json(bug): the updated document, or null when none has the id *)
UpdatedResponse(id, bug) ==
    Response("updateBug", id, bug /= <<>>, Ok,
             IF bug = <<>> THEN "null" ELSE "doc", bug, "none")

updateBug(id, body) ==
    /\ store' = findByIdAndUpdate(store, id, body, now)
    /\ res' = UpdatedResponse(id, FindById(store', id))
    /\ UNCHANGED <<nextId, issued, now>>

(* deleteBug: findByIdAndDelete(req.params.id); res.json({message: 'Bug deleted'}) *)
deleteBug(id) ==
    /\ store' = findByIdAndDelete(store, id)
    /\ res' = Response("deleteBug", id, FindById(store, id) /= <<>>, Ok, "message", <<>>, "none")
    /\ UNCHANGED <<nextId, issued, now>>

(* getBugs: res.json(await Bug.find()) *)
getBugs ==
    /\ res' = Response("getBugs", 0, TRUE, Ok, "list", Find(store), "none")
    /\ UNCHANGED <<store, nextId, issued, now>>

(* A millisecond passes *)
Tick ==
    /\ now < MaxClock
    /\ now' = now + 1
    /\ UNCHANGED <<store, nextId, issued, res>>

----------------------------------------------------------------------------
(* Derived view: client/src/components/BugStats.jsx *)

(* bugs.filter(bug => bug.status === s).length, and the same by priority *)
CountStatus(list, s) ==
    Len(SelectSeq(list, LAMBDA bug : Has(bug, "status") /\ bug.status = s))

CountPriority(list, p) ==
    Len(SelectSeq(list, LAMBDA bug : Has(bug, "priority") /\ bug.priority = p))

(* Math.round of the non-negative quotient num / den *)
MathFloor(num, den) == num \div den

MathRound(num, den) == (2 * num + den) \div (2 * den)

ResolvedPercentage(resolved, total) ==
    IF total > 0 THEN MathRound(resolved * 100, total) ELSE 0

computeStats(list) ==
    LET total == Len(list)
        open == CountStatus(list, "open")
        inProgress == CountStatus(list, "in-progress")
        resolved == CountStatus(list, "resolved")
        closed == CountStatus(list, "closed")
        critical == CountPriority(list, "critical")
        high == CountPriority(list, "high")
        medium == CountPriority(list, "medium")
        low == CountPriority(list, "low")
    IN  [total |-> total, open |-> open, inProgress |-> inProgress, resolved |-> resolved,
         closed |-> closed, critical |-> critical, high |-> high, medium |-> medium,
         low |-> low, resolvedPercentage |-> ResolvedPercentage(resolved, total)]

(* The statistics shown for the list the last getBugs returned *)
Fetched == res.op = "getBugs" /\ res.kind = "list"

stats == computeStats(res.docs)

----------------------------------------------------------------------------
(* Request bodies *)

TestBugTitle == <<"T", "e", "s", "t", " ", "B", "u", "g">>

(* Bug A of the specification's scenario, its description at the minimum length *)
BugA ==
    [title |-> <<"C", "r", "a", "s", "h">>, description |-> Str("d", DescMin),
     priority |-> "critical", assignee |-> <<"A", "l", "i", "c", "e">>,
     reporter |-> <<"B", "o", "b">>, environment |-> <<"C", "h", "r", "o", "m", "e">>]

ValidBodies ==
    {BugA, [title |-> TestBugTitle], Merge([status |-> "resolved"], BugA)}

InvalidBodies ==
    {Without(BugA, {"title"}),
     Merge([title |-> <<>>], BugA),
     Merge([title |-> Str("t", TitleMax + 1)], BugA),
     Merge([description |-> Str("d", DescMin - 1)], BugA),
     Merge([description |-> Str("d", DescMax + 1)], BugA),
     Merge([priority |-> "urgent"], BugA),
     Merge([status |-> "bogus"], BugA),
     Merge([assignee |-> <<>>], BugA),
     Merge([reporter |-> <<>>], BugA),
     Merge([environment |-> <<>>], BugA)}

CreateBodies == ValidBodies \cup InvalidBodies

(* handleStatusChange's {status}, handleUpdateBug's form data, a body that *)
(* carries id and createdAt, a status outside the enumeration, and {}.     *)
Patches ==
    {[status |-> "resolved"],
     BugA,
     [id |-> 99, createdAt |-> 99, status |-> "open"],
     [status |-> "bogus"],
     NoBody}

(* Identifiers a request can name: those not yet generated, and those     *)
(* deleted, name no document.                                              *)
ReqIds == 1..MaxBugs

----------------------------------------------------------------------------
(* The callers and the client before anything is asked of them *)

Callers == {"a", "b"}

Idle == [op |-> "none", id |-> 0, body |-> NoBody, state |-> "idle", code |-> 0, with |-> {}]

NoCalls == [c \in Callers |-> Idle]

(* useForm's defaultValues: the initial data's value of each field, or the *)
(* field's default.                                                        *)
defaultValues(initialData) ==
    Merge([f \in (DOMAIN initialData)
                  \cap {"title", "description", "priority", "assignee", "reporter",
                        "environment", "reproducible", "stepsToReproduce", "tags"}
              |-> initialData[f]],
          [title |-> <<>>, description |-> <<>>, priority |-> "medium", assignee |-> <<>>,
           reporter |-> <<>>, environment |-> <<>>, reproducible |-> FALSE,
           stepsToReproduce |-> <<>>, tags |-> <<>>])

(* useForm: the form's values, the default values it keeps, and its        *)
(* formState (errors, isSubmitted, isSubmitSuccessful).                     *)
useForm(initialData) ==
    [values |-> defaultValues(initialData), defaultValues |-> defaultValues(initialData),
     errors |-> {}, isSubmitted |-> FALSE, isSubmitSuccessful |-> FALSE]

(* ErrorBoundary's constructor: this.state = {hasError: false}; error and  *)
(* errorInfo are undefined.                                                 *)
NoError == [hasError |-> FALSE, error |-> "undefined", errorInfo |-> "undefined"]

(* A mounted ErrorBoundary with the given fallback prop: nothing thrown,   *)
(* nothing logged.                                                          *)
ErrorBoundary(fallback) ==
    [state |-> NoError, fallback |-> fallback, thrown |-> <<>>, console |-> <<>>]

ClientInit ==
    /\ boundary = ErrorBoundary("undefined")
    /\ bugs = <<>>
    /\ searchTerm = <<>>
    /\ filters = NoBody
    /\ form = useForm(NoBody)
    /\ tagInput = <<>>

----------------------------------------------------------------------------
Init ==
    /\ store = <<>>
    /\ nextId = 1
    /\ issued = {}
    /\ now = 0
    /\ res = Response("none", 0, FALSE, 0, "none", <<>>, "none")
    /\ inflight = NoCalls
    /\ ClientInit

Next ==
    \/ (\E body \in CreateBodies : createBug(body)) /\ UNCHANGED <<inflight, client>>
    \/ (\E id \in ReqIds, body \in Patches : updateBug(id, body))
           /\ UNCHANGED <<inflight, client>>
    \/ (\E id \in ReqIds : deleteBug(id)) /\ UNCHANGED <<inflight, client>>
    \/ getBugs /\ UNCHANGED <<inflight, client>>
    \/ Tick /\ UNCHANGED <<inflight, client>>

Spec == Init /\ [][Next]_vars

(* BugStats over any fetched collection: the collection holds up to       *)
(* StatsMaxBugs bugs, each with one of the four statuses.                  *)
PriorityFor(s) ==
    CASE s = "open" -> "low"
      [] s = "in-progress" -> "medium"
      [] s = "resolved" -> "high"
      [] OTHER -> "critical"

StatsBug(i, s) ==
    StampNew(NewBug(Merge([status |-> s, priority |-> PriorityFor(s)], [title |-> TestBugTitle]), i), 0)

StatsInit ==
    /\ \E n \in 0..StatsMaxBugs :
         /\ \E st \in [1..n -> Statuses] : store = [i \in 1..n |-> StatsBug(i, st[i])]
         /\ nextId = n + 1
         /\ issued = 1..n
    /\ now = 0
    /\ res = Response("none", 0, FALSE, 0, "none", <<>>, "none")
    /\ inflight = NoCalls
    /\ ClientInit

StatsSpec == StatsInit /\ [][getBugs /\ UNCHANGED <<inflight, client>>]_vars

(* The status select of a bug card: stored bugs of any of the four         *)
(* statuses, each set to any of the four through handleStatusChange.        *)
handleStatusChange(id, status) == updateBug(id, [status |-> status])

StatusInit ==
    /\ \E n \in 1..MaxBugs :
         /\ \E st \in [1..n -> Statuses] : store = [i \in 1..n |-> StatsBug(i, st[i])]
         /\ nextId = n + 1
         /\ issued = 1..n
    /\ now = 0
    /\ res = Response("none", 0, FALSE, 0, "none", <<>>, "none")
    /\ inflight = NoCalls
    /\ ClientInit

StatusNext ==
    /\ \E id \in ReqIds, status \in Statuses : handleStatusChange(id, status)
    /\ UNCHANGED <<inflight, client>>

StatusSpec == StatusInit /\ [][StatusNext]_vars

----------------------------------------------------------------------------
(* Requests in flight.  A handler awaits one persistence call; the call     *)
(* resolves, and the handler answers, or it rejects, and the rejection      *)
(* leaves the handler (no handler has a try/catch) for the API layer to     *)
(* answer.  Requests of different callers are served in any order.          *)

Request(op, id, body, with) ==
    [op |-> op, id |-> id, body |-> body, state |-> "pending", code |-> 0, with |-> with]

AsyncRequests ==
    {<<"getBugs", 0, NoBody>>,
     <<"createBug", 0, [title |-> TestBugTitle]>>,
     <<"updateBug", 1, [status |-> "resolved"]>>,
     <<"updateBug", 1, [status |-> "closed", priority |-> "high"]>>,
     <<"deleteBug", 1, NoBody>>}

Pending(c) == inflight[c].state = "pending"

(* Caller c sends a request.  with: the callers a request of whom has been *)
(* pending at a time this request was pending.                              *)
Issue(c, r) ==
    /\ inflight[c].state \in {"idle", "answered"}
    /\ inflight' =
         [d \in Callers |->
             IF d = c
             THEN Request(r[1], r[2], r[3], {e \in Callers \ {c} : Pending(e)})
             ELSE IF Pending(d)
                  THEN [inflight[d] EXCEPT !.with = @ \cup {c}]
                  ELSE inflight[d]]
    /\ UNCHANGED <<server, client>>

(* The handler of a request, its persistence call resolving *)
Handle(r) ==
    \/ r.op = "getBugs" /\ getBugs
    \/ r.op = "createBug" /\ createBug(r.body)
    \/ r.op = "updateBug" /\ updateBug(r.id, r.body)
    \/ r.op = "deleteBug" /\ deleteBug(r.id)

Settle(c) ==
    /\ Pending(c)
    /\ Handle(inflight[c])
    /\ inflight' = [inflight EXCEPT ![c].state = "answered", ![c].code = res'.code]
    /\ UNCHANGED client

(* A handler that catches the rejection of its persistence call and       *)
(* answers with an empty success.                                           *)
Swallowed(c) ==
    /\ Pending(c)
    /\ res' = Response(inflight[c].op, inflight[c].id, FALSE, Ok, "null", <<>>, "none")
    /\ inflight' = [inflight EXCEPT ![c].state = "answered", ![c].code = Ok]
    /\ UNCHANGED <<store, nextId, issued, now, client>>

(* The awaited persistence call rejects: nothing is written, and the       *)
(* handler, which catches nothing, ends without having sent an answer.      *)
Fail(c) ==
    /\ Pending(c)
    /\ inflight' = [inflight EXCEPT ![c].state = "rejected"]
    /\ UNCHANGED <<server, client>>

(* The API layer answers the rejected request *)
Answer(c) ==
    /\ inflight[c].state = "rejected"
    /\ res' = Rejected(inflight[c].op, inflight[c].id, "StorageError")
    /\ inflight' = [inflight EXCEPT ![c].state = "answered", ![c].code = res'.code]
    /\ UNCHANGED <<store, nextId, issued, now, client>>

(* One bug is stored, the one the integration test creates *)
AsyncInit ==
    /\ store = <<StampNew(NewBug([title |-> TestBugTitle], 1), 0)>>
    /\ nextId = 2
    /\ issued = {1}
    /\ now = 0
    /\ res = Response("none", 0, FALSE, 0, "none", <<>>, "none")
    /\ inflight = NoCalls
    /\ ClientInit

AsyncNext ==
    \E c \in Callers :
        \/ \E r \in AsyncRequests : Issue(c, r)
        \/ Settle(c)
        \/ Fail(c)
        \/ Answer(c)

(* The API layer answers every rejection it is handed *)
AsyncSpec ==
    AsyncInit /\ [][AsyncNext]_vars /\ \A c \in Callers : WF_vars(Answer(c))

----------------------------------------------------------------------------
(* Properties *)

Live(s, id) == \E i \in 1..Len(s) : s[i].id = id

(* The document of s with identifier id *)
Doc(s, id) == s[CHOOSE i \in 1..Len(s) : s[i].id = id]

(* C1: a delete of an id that was created and has since been deleted (ids *)
(* are never generated twice, so no create brings it back) is answered     *)
(* with 404 Not Found, and not with the confirmation.                      *)
C1_SecondDeleteNotFound ==
    [][(res'.op = "deleteBug" /\ deleteBug(res'.id)
          /\ res'.id \in issued /\ ~Live(store, res'.id))
         => (res'.code = 404 /\ res'.kind /= "message")]_vars

(* C2: an update naming an id with no live record is answered with 404,   *)
(* returns no bug and leaves the collection unchanged.                     *)
C2_UpdateAbsentNotFound ==
    [][(res'.op = "updateBug" /\ ~Live(store, res'.id))
         => \A body \in Patches :
              updateBug(res'.id, body)
                  => (res'.code = 404 /\ res'.docs = <<>> /\ store' = store)]_vars

(* C3: a create whose input violates a field rule of the form schema is   *)
(* answered with 400 and leaves the collection unchanged.                  *)
C3_CreateRejectsInvalid ==
    [][res'.op = "createBug"
         => \A body \in CreateBodies :
              (createBug(body) /\ ~bugFormSchema(body))
                  => (res'.code = 400 /\ store' = store)]_vars

(* C4: every successful create returns a bug whose id no earlier create   *)
(* returned, whose status is open and whose createdAt equals its           *)
(* updatedAt.                                                              *)
C4_CreateFreshOpen ==
    [][(res'.op = "createBug" /\ res'.code = Created)
         => \A body \in CreateBodies :
              createBug(body)
                  => /\ res'.docs[1].id \notin issued
                     /\ res'.docs[1].status = "open"
                     /\ res'.docs[1].createdAt = res'.docs[1].updatedAt]_vars

(* C5: a create that stored its document is answered with 201 and the     *)
(* stored bug, every field the body carried having the value sent.         *)
C5_CreateAnswersCreated ==
    [][(res'.op = "createBug" /\ Len(store') = Len(store) + 1)
         => \A body \in CreateBodies :
              createBug(body)
                  => /\ res'.code = 201
                     /\ res'.kind = "doc"
                     /\ res'.docs = <<store'[Len(store')]>>
                     /\ \A f \in DOMAIN body :
                          Has(res'.docs[1], f) /\ res'.docs[1][f] = body[f]]_vars

(* The test's request, {title: 'Test Bug'}, answered with 201 *)
C5_TestBugCreated ==
    /\ res.op = "createBug"
    /\ res.code = 201
    /\ res.kind = "doc"
    /\ res.docs[1].title = TestBugTitle
    /\ DOMAIN res.docs[1] = {"id", "title", "status", "createdAt", "updatedAt"}

(* What a successful update leaves alone: the fields of the record the    *)
(* patch does not carry, and every other record.                           *)
UpdateFrame(id, body) ==
    /\ Len(store') = Len(store)
    /\ \A i \in 1..Len(store) :
         IF store[i].id /= id
         THEN store'[i] = store[i]
         ELSE Without(store'[i], (DOMAIN body) \cup {"updatedAt"})
                 = Without(store[i], (DOMAIN body) \cup {"updatedAt"})

(* The stamp of an update: updatedAt is the time of the update, at least   *)
(* the previous one, and later than it when the clock has advanced.        *)
UpdateStamp(id) ==
    \A i \in 1..Len(store) :
        store[i].id = id
            => /\ store'[i].updatedAt = now
               /\ store'[i].updatedAt >= store[i].updatedAt
               /\ (now > store[i].updatedAt
                     => store'[i].updatedAt > store[i].updatedAt)

(* No record has a different id or createdAt after the step.               *)
IdentityKept ==
    /\ Len(store') = Len(store)
    /\ \A i \in 1..Len(store) :
         /\ store'[i].id = store[i].id
         /\ store'[i].createdAt = store[i].createdAt

C8_EnumsValid ==
    \A i \in 1..Len(store) :
        /\ store[i].status \in Statuses
        /\ Has(store[i], "priority") => store[i].priority \in Priorities

(* C9: for the collection getBugs returned, the four status counts sum to *)
(* the total.  (The priority counts fail to as well, for a bug stored      *)
(* without a priority.)                                                    *)
C9_StatusCountsSumToTotal ==
    Fetched => stats.open + stats.inProgress + stats.resolved + stats.closed = stats.total

(* C10: resolvedPercentage is 0 for an empty collection, and otherwise    *)
(* the integer nearest to 100 * resolved / total, a half rounding up; it   *)
(* lies in 0..100.                                                         *)
C10_ResolvedPercentage ==
    Fetched =>
        LET total == Len(res.docs)
            resolved == Cardinality({i \in 1..total : res.docs[i].status = "resolved"})
            pct == stats.resolvedPercentage
        IN  /\ pct \in 0..100
            /\ total = 0 => pct = 0
            /\ total > 0 => /\ 2 * total * pct <= 200 * resolved + total
                            /\ 200 * resolved + total < 2 * total * (pct + 1)

(* One resolved bug of eight: 12.5 rounds to 13 *)
C10_HalfRoundsUp ==
    /\ Fetched
    /\ stats.total = 8
    /\ stats.resolved = 1
    /\ stats.resolvedPercentage = 13

(* What a delete that found its record leaves: the collection without     *)
(* that record, the others as they were and in their order.                *)
Deleted(id) ==
    /\ ~Live(store', id)
    /\ Len(store') = Len(store) - 1
    /\ \A i \in 1..Len(store) :
         /\ (\A k \in 1..i : store[k].id /= id) => store'[i] = store[i]
         /\ (\E k \in 1..(i - 1) : store[k].id = id) => store'[i - 1] = store[i]

(* C14: a delete that found its record removes that record and no other,  *)
(* and a getBugs that follows it returns the collection as the delete left *)
(* it: no bug with the deleted id, every other bug unchanged.              *)
C14_DeleteThenGetAll ==
    [][/\ (res'.op = "deleteBug" /\ res'.found /\ deleteBug(res'.id))
            => Deleted(res'.id)
       /\ (res.op = "deleteBug" /\ res.found /\ res'.op = "getBugs" /\ getBugs)
            => (res'.docs = store /\ ~Live(res'.docs, res.id))]_vars

(* Two bugs were created, the first is gone, and getBugs returned the      *)
(* second alone.                                                           *)
C14_ListedWithoutDeleted ==
    /\ res.op = "getBugs"
    /\ issued = {1, 2}
    /\ res.docs = store
    /\ Len(res.docs) = 1
    /\ res.docs[1].id = 2

(* What an update that found its record leaves: that record as the answer  *)
(* carries it, in its place, and every other record as it was.             *)
Updated(id) ==
    /\ Len(store') = Len(store)
    /\ Live(store, id)
    /\ \A i \in 1..Len(store) :
         IF store[i].id = id THEN res'.docs = <<store'[i]>> ELSE store'[i] = store[i]

(* C17: a create, update or delete answered as a success has changed the  *)
(* collection by its one whole record (appended, replaced in place, or      *)
(* removed), and one answered with an error has left the collection as it   *)
(* was.                                                                     *)
C17_MutatesOnce ==
    [][/\ res'.op = "createBug"
            => \A body \in CreateBodies :
                 createBug(body)
                     => IF res'.code >= 400
                        THEN store' = store
                        ELSE store' = Append(store, res'.docs[1])
       /\ res'.op = "updateBug"
            => \A body \in Patches :
                 updateBug(res'.id, body)
                     => IF res'.code >= 400 THEN store' = store ELSE Updated(res'.id)
       /\ (res'.op = "deleteBug" /\ deleteBug(res'.id))
            => IF res'.code >= 400 THEN store' = store ELSE Deleted(res'.id)]_vars

(* C18: whatever the status of a stored bug, an update carrying any of the *)
(* four statuses is answered 200 with the bug, and the bug then has that    *)
(* status.                                                                  *)
C18_AnyStatusTransition ==
    [][(res'.op = "updateBug" /\ Live(store, res'.id))
         => \A from \in Statuses, status \in Statuses :
              (Doc(store, res'.id).status = from /\ handleStatusChange(res'.id, status))
                  => /\ res'.code = 200
                     /\ res'.kind = "doc"
                     /\ res'.docs[1].status = status
                     /\ Doc(store', res'.id).status = status]_vars

(* A bug that was closed at first (it has the priority the closed bugs     *)
(* start with) has been set back to open, while the other bug is still      *)
(* closed.                                                                  *)
C18_Reopened ==
    /\ res.op = "updateBug"
    /\ res.kind = "doc"
    /\ res.id = 1
    /\ Len(store) = 2
    /\ store[1].status = "open"
    /\ store[1].priority = PriorityFor("closed")
    /\ store[2].status = "closed"

-----------------------------------------------------------------------------
(* The list view of index.jsx *)

UpperCase ==
    <<"A", "B", "C", "D", "E", "F", "G", "H", "I", "J", "K", "L", "M",
      "N", "O", "P", "Q", "R", "S", "T", "U", "V", "W", "X", "Y", "Z">>

LowerCase ==
    <<"a", "b", "c", "d", "e", "f", "g", "h", "i", "j", "k", "l", "m",
      "n", "o", "p", "q", "r", "s", "t", "u", "v", "w", "x", "y", "z">>

(* String.prototype.toLowerCase *)
toLowerCase(t) ==
    [i \in 1..Len(t) |->
        IF \E k \in 1..Len(UpperCase) : UpperCase[k] = t[i]
        THEN LowerCase[CHOOSE k \in 1..Len(UpperCase) : UpperCase[k] = t[i]]
        ELSE t[i]]

(* String.prototype.includes *)
includes(t, sub) ==
    \E k \in 0..(Len(t) - Len(sub)) : SubSeq(t, k + 1, k + Len(sub)) = sub

(* Array.prototype.includes on an array of strings *)
includesTag(tags, tag) == \E i \in 1..Len(tags) : tags[i] = tag

(* useBugs().filterBugs: the bugs that have the value of every criterion   *)
(* that is set, in the order of bugs.                                       *)
filterBugs(criteria) ==
    SelectSeq(bugs, LAMBDA bug :
        \A f \in DOMAIN criteria : Has(bug, f) /\ bug[f] = criteria[f])

SearchedFields == <<"title", "description", "assignee", "reporter">>

(* The callback of result.filter for one bug: the || chain is evaluated    *)
(* left to right and stops at the first field that includes the term; a     *)
(* field the bug does not have is undefined, and calling toLowerCase or     *)
(* some on it throws a TypeError.                                           *)
RECURSIVE SearchBug(_, _, _)
SearchBug(bug, term, k) ==
    IF k <= Len(SearchedFields)
    THEN IF ~Has(bug, SearchedFields[k])
         THEN "TypeError"
         ELSE IF includes(toLowerCase(bug[SearchedFields[k]]), toLowerCase(term))
              THEN "true"
              ELSE SearchBug(bug, term, k + 1)
    ELSE IF ~Has(bug, "tags")
         THEN "TypeError"
         ELSE IF \E i \in 1..Len(bug.tags) :
                     includes(toLowerCase(bug.tags[i]), toLowerCase(term))
              THEN "true"
              ELSE "false"

(* if (searchTerm): the empty string is the only falsy one *)
Truthy(term) == term /= <<>>

(* filteredBugs: the list the page shows, or the TypeError thrown while    *)
(* computing it.                                                            *)
Shown(list) == [threw |-> FALSE, list |-> list]

Thrown == [threw |-> TRUE, list |-> <<>>]

filteredBugs ==
    IF ~Truthy(searchTerm)
    THEN Shown(filterBugs(filters))
    ELSE IF \E i \in 1..Len(filterBugs(filters)) :
                SearchBug(filterBugs(filters)[i], searchTerm, 1) = "TypeError"
         THEN Thrown
         ELSE Shown(SelectSeq(filterBugs(filters),
                              LAMBDA bug : SearchBug(bug, searchTerm, 1) = "true"))

(* useBugs: the collection the server returned replaces bugs *)
fetchBugs ==
    /\ getBugs
    /\ bugs' = res'.docs
    /\ UNCHANGED <<inflight, boundary, searchTerm, filters, form, tagInput>>

setSearchTerm(term) ==
    /\ searchTerm' = term
    /\ UNCHANGED <<server, inflight, boundary, bugs, filters, form, tagInput>>

setFilters(criteria) ==
    /\ filters' = criteria
    /\ UNCHANGED <<server, inflight, boundary, bugs, searchTerm, form, tagInput>>

clearFiltersOnly ==
    /\ filters' = NoBody
    /\ UNCHANGED <<server, inflight, boundary, bugs, searchTerm, form, tagInput>>

(* clearFilters: setFilters({}); setSearchTerm('') *)
clearFilters ==
    /\ filters' = NoBody
    /\ searchTerm' = <<>>
    /\ UNCHANGED <<server, inflight, boundary, bugs, form, tagInput>>

(* Bug A with a tag, a second complete bug whose description has a space,  *)
(* and the body of the integration test.                                    *)
ViewBodies ==
    {Merge([tags |-> << <<"U", "i">> >>, reproducible |-> FALSE], BugA),
     [title |-> <<"L", "o", "g", "i", "n">>,
      description |-> <<"C", "R", "A", "S", "H", " ", "o", "n", " ", "s", "a", "v", "e">>,
      priority |-> "low", assignee |-> <<"B", "o", "b">>,
      reporter |-> <<"A", "l", "i", "c", "e">>, environment |-> <<"C", "h", "r", "o", "m", "e">>,
      reproducible |-> TRUE, tags |-> <<>>],
     [title |-> TestBugTitle]}

Terms ==
    {<<>>, <<" ">>, <<"c", "r", "a", "s", "h">>, <<"z", "z", "z">>, <<"U", "I">>,
     <<"b", "o", "b">>}

Criteria ==
    {NoBody, [status |-> "open"], [status |-> "closed"], [priority |-> "critical"],
     [assignee |-> <<"B", "o", "b">>], [reproducible |-> TRUE],
     [priority |-> "low", reproducible |-> TRUE]}

ViewNext ==
    \/ (\E body \in ViewBodies : createBug(body)) /\ UNCHANGED <<inflight, client>>
    \/ fetchBugs
    \/ \E term \in Terms : setSearchTerm(term)
    \/ \E criteria \in Criteria : setFilters(criteria)
    \/ clearFilters

ViewSpec == Init /\ [][ViewNext]_vars

-----------------------------------------------------------------------------
(* The bug form of BugForm.jsx *)

(* The keys of bugFormSchema, in the order z.object lists them *)
SchemaShape ==
    <<"title", "description", "priority", "assignee", "reporter", "environment",
      "reproducible", "stepsToReproduce", "tags">>

(* zodResolver(bugFormSchema): z.object parses every key and collects the  *)
(* issues of all of them; the resolver turns them into one error per field. *)
RECURSIVE zodIssuesFirst(_, _)
zodIssuesFirst(data, k) ==
    IF k > Len(SchemaShape)
    THEN {}
    ELSE IF Has(data, SchemaShape[k]) /\ FieldValid(SchemaShape[k], data[SchemaShape[k]])
         THEN zodIssuesFirst(data, k + 1)
         ELSE {SchemaShape[k]}

RECURSIVE zodIssues(_, _)
zodIssues(data, k) ==
    IF k > Len(SchemaShape)
    THEN {}
    ELSE IF Has(data, SchemaShape[k]) /\ FieldValid(SchemaShape[k], data[SchemaShape[k]])
         THEN zodIssues(data, k + 1)
         ELSE {SchemaShape[k]} \cup zodIssues(data, k + 1)

zodResolver(data) == zodIssues(data, 1)

(* A field's input changes: field.onChange sets the value and, once the    *)
(* form has been submitted, validates again and renews that field's error.  *)
setValue(f, v) ==
    /\ form' = [form EXCEPT
                   !.values = Merge([g \in {f} |-> v], @),
                   !.errors = IF form.isSubmitted
                              THEN (@ \ {f})
                                     \cup (zodResolver(Merge([g \in {f} |-> v], form.values))
                                              \cap {f})
                              ELSE @]
    /\ UNCHANGED <<server, inflight, boundary, bugs, searchTerm, filters, tagInput>>

(* form.handleSubmit(handleSubmit): the resolver runs over the values;     *)
(* with no error handleSubmit passes the data to onSubmit, otherwise the    *)
(* errors are set and onSubmit is not called.                               *)
handleSubmit ==
    /\ form' = [form EXCEPT
                   !.errors = zodResolver(form.values),
                   !.isSubmitted = TRUE,
                   !.isSubmitSuccessful = zodResolver(form.values) = {}]
    /\ UNCHANGED <<server, inflight, boundary, bugs, searchTerm, filters, tagInput>>

(* String.prototype.trim *)
trim(t) ==
    IF \A i \in 1..Len(t) : t[i] \in Whitespace
    THEN <<>>
    ELSE SubSeq(t,
                CHOOSE i \in 1..Len(t) :
                    t[i] \notin Whitespace /\ \A j \in 1..(i - 1) : t[j] \in Whitespace,
                CHOOSE i \in 1..Len(t) :
                    t[i] \notin Whitespace /\ \A j \in (i + 1)..Len(t) : t[j] \in Whitespace)

setTagInput(v) ==
    /\ tagInput' = v
    /\ UNCHANGED <<server, inflight, boundary, bugs, searchTerm, filters, form>>

addTagAny ==
    IF Truthy(trim(tagInput))
    THEN /\ form' = [form EXCEPT !.values.tags = Append(@, trim(tagInput))]
         /\ tagInput' = <<>>
         /\ UNCHANGED <<server, inflight, boundary, bugs, searchTerm, filters>>
    ELSE UNCHANGED vars

(* addTag: a trimmed input that is not empty and not yet among the tags is *)
(* appended and the input is cleared; otherwise nothing changes.            *)
addTag ==
    IF Truthy(trim(tagInput)) /\ ~includesTag(form.values.tags, trim(tagInput))
    THEN /\ form' = [form EXCEPT !.values.tags = Append(@, trim(tagInput))]
         /\ tagInput' = <<>>
         /\ UNCHANGED <<server, inflight, boundary, bugs, searchTerm, filters>>
    ELSE UNCHANGED vars

(* removeTag: currentTags.filter(tag => tag !== tagToRemove) *)
removeTag(tagToRemove) ==
    /\ form' = [form EXCEPT
                   !.values.tags = SelectSeq(@, LAMBDA tag : tag /= tagToRemove)]
    /\ UNCHANGED <<server, inflight, boundary, bugs, searchTerm, filters, tagInput>>

TagUi == <<"u", "i">>

TagApi == <<"a", "p", "i">>

(* initialData: none (a new bug), and stored bugs being edited: one with   *)
(* two tags, one with a tag twice, one with a blank tag.                    *)
InitialData ==
    {NoBody,
     Merge([tags |-> <<TagUi, TagApi>>], BugA),
     Merge([tags |-> <<TagUi, TagUi>>], BugA),
     Merge([tags |-> <<TagUi, <<" ">> >>], BugA)}

TagInputs == {<<>>, <<" ">>, TagUi, <<" ", "u", "i", "\t">>, TagApi}

FieldInputs ==
    [title |-> {<<>>, <<"C", "r", "a", "s", "h">>},
     description |-> {<<"d", "d", "d">>, Str("d", DescMin)},
     assignee |-> {<<>>, <<"A", "l", "i", "c", "e">>},
     priority |-> {"medium", "critical"}]

FormInit ==
    /\ store = <<>>
    /\ nextId = 1
    /\ issued = {}
    /\ now = 0
    /\ res = Response("none", 0, FALSE, 0, "none", <<>>, "none")
    /\ inflight = NoCalls
    /\ boundary = ErrorBoundary("undefined")
    /\ bugs = <<>>
    /\ searchTerm = <<>>
    /\ filters = NoBody
    /\ \E initialData \in InitialData : form = useForm(initialData)
    /\ tagInput = <<>>

FormNext ==
    \/ \E f \in DOMAIN FieldInputs : \E v \in FieldInputs[f] : setValue(f, v)
    \/ handleSubmit
    \/ \E v \in TagInputs : setTagInput(v)
    \/ addTag
    \/ \E i \in 1..Len(form.values.tags) : removeTag(form.values.tags[i])

FormSpec == FormInit /\ [][FormNext]_vars

-----------------------------------------------------------------------------
(* The error boundary of ErrorBoundary.jsx, around the page of index.jsx *)

(* Errors caught at most, so that the console's log stays bounded *)
MaxErrors == 2

Errors == {"TypeError", "RangeError"}

(* errorInfo.componentStack: the child that threw *)
ComponentStacks == {"BugCard", "BugForm"}

(* props.fallback: not given, null, or an element *)
Fallbacks == {"undefined", "null", "element"}

(* if (this.props.fallback) *)
FallbackGiven(fallback) == fallback \notin {"undefined", "null"}

(* this.setState(partial): the partial state is merged into the state *)
setState(state, partial) == Merge(partial, state)

(* static getDerivedStateFromError(error): {hasError: true, error} *)
getDerivedStateFromError(error) == [hasError |-> TRUE, error |-> error]

(* render(): what the boundary returns *)
render ==
    IF boundary.state.hasError
    THEN IF FallbackGiven(boundary.fallback) THEN "fallback" ELSE "card"
    ELSE "children"

(* A child throws while it renders: React derives the boundary's state     *)
(* from the error and keeps the error for componentDidCatch.                *)
catchError(error, errorInfo) ==
    /\ render = "children"
    /\ boundary.thrown = <<>>
    /\ Len(boundary.console) < MaxErrors
    /\ boundary' = [boundary EXCEPT
                       !.state = setState(@, getDerivedStateFromError(error)),
                       !.thrown = <<[error |-> error, errorInfo |-> errorInfo]>>]
    /\ UNCHANGED <<server, inflight, bugs, searchTerm, filters, form, tagInput>>

(* componentDidCatch(error, errorInfo): console.error(..); setState({error, errorInfo}) *)
componentDidCatch ==
    /\ boundary.thrown /= <<>>
    /\ boundary' = [boundary EXCEPT
                       !.console = Append(@, boundary.thrown[1]),
                       !.state = setState(@, boundary.thrown[1]),
                       !.thrown = <<>>]
    /\ UNCHANGED <<server, inflight, bugs, searchTerm, filters, form, tagInput>>

handleRetryFlagOnly ==
    /\ render = "card"
    /\ boundary.thrown = <<>>
    /\ boundary' = [boundary EXCEPT !.state = setState(@, [hasError |-> FALSE])]
    /\ UNCHANGED <<server, inflight, bugs, searchTerm, filters, form, tagInput>>

(* handleRetry, the onClick of the error card's Try Again button:          *)
(* setState({hasError: false, error: undefined, errorInfo: undefined})      *)
handleRetry ==
    /\ render = "card"
    /\ boundary.thrown = <<>>
    /\ boundary' = [boundary EXCEPT
                       !.state = setState(@, [hasError |-> FALSE, error |-> "undefined",
                                              errorInfo |-> "undefined"])]
    /\ UNCHANGED <<server, inflight, bugs, searchTerm, filters, form, tagInput>>

(* The page's inputs exist only while the boundary renders its children *)
ChildrenShown == render = "children" /\ boundary.thrown = <<>>

BoundaryInit ==
    /\ store = <<>>
    /\ nextId = 1
    /\ issued = {}
    /\ now = 0
    /\ res = Response("none", 0, FALSE, 0, "none", <<>>, "none")
    /\ inflight = NoCalls
    /\ \E fallback \in Fallbacks : boundary = ErrorBoundary(fallback)
    /\ bugs = <<>>
    /\ searchTerm = <<>>
    /\ filters = NoBody
    /\ form = useForm(NoBody)
    /\ tagInput = <<>>

BoundaryNext ==
    \/ \E error \in Errors, errorInfo \in ComponentStacks : catchError(error, errorInfo)
    \/ componentDidCatch
    \/ handleRetry
    \/ ChildrenShown /\ \E term \in Terms : setSearchTerm(term)
    \/ ChildrenShown /\ \E criteria \in Criteria : setFilters(criteria)
    \/ ChildrenShown /\ clearFilters

BoundarySpec == BoundaryInit /\ [][BoundaryNext]_vars

-----------------------------------------------------------------------------
(* The requests of c and d were pending at the same time, and both are     *)
(* updates of one id.                                                       *)
ConcurrentUpdates(c, d) ==
    /\ c /= d
    /\ d \in inflight[c].with
    /\ c \in inflight[d].with
    /\ inflight[c].op = "updateBug"
    /\ inflight[d].op = "updateBug"
    /\ inflight[c].id = inflight[d].id

(* C15: of two updates of a stored bug that were in flight together, each  *)
(* is answered 200 with the bug when it is applied, and the bug then has,   *)
(* in every field the update carries, the value of that update: after both, *)
(* the values of the one applied last.                                      *)
C15_LastWriteWins ==
    [][\A c \in Callers :
         (/\ Pending(c)
          /\ \E d \in Callers : ConcurrentUpdates(c, d)
          /\ Live(store, inflight[c].id)
          /\ Settle(c))
             => /\ res'.code = 200
                /\ res'.kind = "doc"
                /\ inflight'[c].code = 200
                /\ \A f \in DOMAIN inflight[c].body :
                     Doc(store', inflight[c].id)[f] = inflight[c].body[f]]_vars

(* Both callers' updates of bug 1 were in flight together and both were    *)
(* answered 200; a's was applied last: the bug has a's status, and the      *)
(* priority only b's update carried.                                        *)
C15_BothApplied ==
    /\ ConcurrentUpdates("a", "b")
    /\ inflight["a"].state = "answered"
    /\ inflight["b"].state = "answered"
    /\ inflight["a"].code = 200
    /\ inflight["b"].code = 200
    /\ inflight["a"].body = [status |-> "resolved"]
    /\ inflight["b"].body = [status |-> "closed", priority |-> "high"]
    /\ res.op = "updateBug"
    /\ res.docs = <<store[1]>>
    /\ store[1].status = "resolved"
    /\ store[1].priority = "high"

-----------------------------------------------------------------------------
(* The list view *)

(* term has a character that is not whitespace *)
NonBlank(term) == \E i \in 1..Len(term) : term[i] \notin Whitespace

(* The lower-cased term is a substring of the lower-cased title,           *)
(* description, assignee, reporter or of a tag of bug.                      *)
SearchHit(bug, term) ==
    \/ \E k \in 1..Len(SearchedFields) :
          /\ Has(bug, SearchedFields[k])
          /\ includes(toLowerCase(bug[SearchedFields[k]]), toLowerCase(term))
    \/ /\ Has(bug, "tags")
       /\ \E i \in 1..Len(bug.tags) : includes(toLowerCase(bug.tags[i]), toLowerCase(term))

(* C11: with a non-blank search term the page shows exactly the bugs, in   *)
(* the order of the fetched collection, that pass the filter and have the   *)
(* term, case aside, in their title, description, assignee, reporter or in  *)
(* a tag.                                                                   *)
C11_SearchMatchesFields ==
    NonBlank(searchTerm)
        => filteredBugs
             = Shown(SelectSeq(filterBugs(filters), LAMBDA bug : SearchHit(bug, searchTerm)))

(* C12: with an empty or whitespace-only search term and no filter the     *)
(* page shows the fetched collection unchanged.                             *)
C12_BlankTermShowsAll ==
    (~NonBlank(searchTerm) /\ filters = NoBody) => filteredBugs = Shown(bugs)

-----------------------------------------------------------------------------
(* The bug form *)

(* The fields of data whose value breaks the field's rule *)
ViolatedFields(data) == {f \in DOMAIN data : ~FieldValid(f, data[f])}

(* C19: a submit names in the form's errors every field whose value        *)
(* breaks its rule, however many there are, and passes the data on only     *)
(* when there is none.                                                      *)
C19_AllViolationsNamed ==
    [][handleSubmit
         => /\ form'.errors = ViolatedFields(form.values)
            /\ form'.isSubmitSuccessful = (ViolatedFields(form.values) = {})
            /\ form'.values = form.values]_vars

(* A submit with an empty title, a short description and no assignee: the  *)
(* three fields are named together.                                         *)
C19_ThreeFieldsNamed ==
    /\ form.isSubmitted
    /\ ~form.isSubmitSuccessful
    /\ form.values.title = <<>>
    /\ form.values.description = <<"d", "d", "d">>
    /\ form.values.assignee = <<>>
    /\ form.errors = {"title", "description", "assignee"}

NoDuplicates(tags) ==
    \A i \in 1..Len(tags) : \A j \in 1..Len(tags) : tags[i] = tags[j] => i = j

NoBlankTags(tags) == \A i \in 1..Len(tags) : NonBlank(tags[i])

(* What one addTag and one removeTag do to a tag list without duplicates:  *)
(* addTag appends the input without its surrounding whitespace when that    *)
(* is not empty and not yet a tag, and else changes nothing; removeTag      *)
(* drops the named tag and keeps the others in place.                       *)
TagStepsExact ==
    [][NoDuplicates(form.values.tags)
         => /\ addTag
                 => IF NonBlank(tagInput) /\ ~includesTag(form.values.tags, trim(tagInput))
                    THEN /\ form'.values.tags = Append(form.values.tags, trim(tagInput))
                         /\ trim(tagInput)[1] \notin Whitespace
                         /\ trim(tagInput)[Len(trim(tagInput))] \notin Whitespace
                         /\ includes(tagInput, trim(tagInput))
                         /\ \A i \in 1..Len(tagInput) :
                              tagInput[i] \notin Whitespace
                                  => \E k \in 1..Len(trim(tagInput)) :
                                        trim(tagInput)[k] = tagInput[i]
                    ELSE form'.values.tags = form.values.tags
            /\ \A i \in 1..Len(form.values.tags) :
                 removeTag(form.values.tags[i])
                     => form'.values.tags
                          = SubSeq(form.values.tags, 1, i - 1)
                              \o SubSeq(form.values.tags, i + 1, Len(form.values.tags))]_vars

(* C20 as stated: from a tag list without duplicates, the tag list never   *)
(* has a duplicate nor a blank entry, and addTag and removeTag do exactly   *)
(* what TagStepsExact says.                                                 *)
C20_TagsStayClean ==
    /\ [](NoDuplicates(form.defaultValues.tags)
            => NoDuplicates(form.values.tags) /\ NoBlankTags(form.values.tags))
    /\ TagStepsExact

(* C20 with the start narrowed: from a tag list without duplicates and     *)
(* without blank entries, the tag list never has a duplicate nor a blank    *)
(* entry, and addTag and removeTag do exactly what TagStepsExact says.      *)
C20_CleanTagsStayClean ==
    /\ []((NoDuplicates(form.defaultValues.tags) /\ NoBlankTags(form.defaultValues.tags))
            => NoDuplicates(form.values.tags) /\ NoBlankTags(form.values.tags))
    /\ TagStepsExact

(* The form of a bug with the tags ui, api after ui was removed and added  *)
(* again from an input with whitespace around it.                           *)
C20_RemovedAndAddedAgain ==
    /\ form.defaultValues.tags = <<TagUi, TagApi>>
    /\ form.values.tags = <<TagApi, TagUi>>
    /\ tagInput = <<>>

-----------------------------------------------------------------------------
(* The error boundary *)

(* C21: catching a child's error sets hasError; hasError then stays true,  *)
(* with the fallback or the error card rendered in place of the children,   *)
(* until handleRetry; handleRetry sets hasError to false and clears error   *)
(* and errorInfo, and the children are rendered again.                      *)
C21_ErrorShownUntilRetry ==
    /\ [][\A error \in Errors, errorInfo \in ComponentStacks :
            catchError(error, errorInfo)
                => /\ boundary'.state.hasError
                   /\ boundary'.state.error = error]_vars
    /\ [][(boundary.state.hasError /\ ~handleRetry) => boundary'.state.hasError]_vars
    /\ [](boundary.state.hasError
            => /\ render \in {"fallback", "card"}
               /\ (render = "fallback") = (boundary.fallback = "element"))
    /\ [](~boundary.state.hasError => render = "children")
    /\ [][handleRetry
            => /\ boundary.state.hasError
               /\ ~boundary'.state.hasError
               /\ boundary'.state.error = "undefined"
               /\ boundary'.state.errorInfo = "undefined"
               /\ render' = "children"]_vars

(* A TypeError of a bug card was caught and logged, and after Try Again    *)
(* the boundary's state is clear and the children are rendered.             *)
C21_RetriedAfterCatch ==
    /\ boundary.console = <<[error |-> "TypeError", errorInfo |-> "BugCard"]>>
    /\ boundary.thrown = <<>>
    /\ boundary.state = NoError
    /\ render = "children"

====
